---- MODULE Spec2Model ----
(***************************************************************************)
(* Upgrade validation pipeline of task-signing-tool: path resolution,      *)
(* config loading, state-diff simulation and the two HTTP handlers that    *)
(* build paths from caller-supplied network / upgradeId.                   *)
(*                                                                         *)
(* A string is a sequence of atoms. The atoms "/", ".", "\\", "a", "A" are *)
(* single characters; "validations", "lib" and ".json" are the literals of *)
(* the code, which no caller input can spell with the characters above.    *)
(***************************************************************************)
EXTENDS Integers, Sequences, FiniteSets, TLC

VARIABLES pc, req, effects, resp, loaded

vars == <<pc, req, effects, resp, loaded>>

\* ------------------------------------------------------------------ bounds
MaxLen == 2
MaxUps == 3
MaxSegs == 2

\* ----------------------------------------------------------------- strings
Sep == "/"
Dot == <<".">>
DotDot == <<".", ".">>

Strs(chars, n) == UNION {[1..k -> chars] : k \in 0..n}

startsWith(s, prefix) ==
  Len(prefix) <= Len(s) /\ SubSeq(s, 1, Len(prefix)) = prefix

endsWith(s, suffix) ==
  Len(suffix) <= Len(s) /\ SubSeq(s, Len(s) - Len(suffix) + 1, Len(s)) = suffix

includes(s, ch) == \E i \in DOMAIN s : s[i] = ch

toLowerCase(s) == [i \in DOMAIN s |-> IF s[i] = "A" THEN "a" ELSE s[i]]

isAbsolute(s) == Len(s) > 0 /\ s[1] = Sep

RECURSIVE SplitFrom(_, _)
SplitFrom(s, cur) ==
  IF s = <<>> THEN <<cur>>
  ELSE IF Head(s) = Sep THEN <<cur>> \o SplitFrom(Tail(s), <<>>)
  ELSE SplitFrom(Tail(s), Append(cur, Head(s)))

Split(s) == SplitFrom(s, <<>>)

RECURSIVE JoinParts(_)
JoinParts(parts) ==
  IF parts = <<>> THEN <<>>
  ELSE IF Len(parts) = 1 THEN parts[1]
  ELSE parts[1] \o <<Sep>> \o JoinParts(Tail(parts))

\* node:path normalizeString: drops empty and "." components, lets ".." pop
\* the previous component, and keeps a leading ".." only when allowed.
RECURSIVE normalizeString(_, _, _)
normalizeString(parts, stack, allowAboveRoot) ==
  IF parts = <<>> THEN stack
  ELSE LET c == Head(parts)
           rest == Tail(parts)
       IN IF c = <<>> \/ c = Dot THEN normalizeString(rest, stack, allowAboveRoot)
          ELSE IF c = DotDot
            THEN IF stack # <<>> /\ stack[Len(stack)] # DotDot
                   THEN normalizeString(rest, SubSeq(stack, 1, Len(stack) - 1), allowAboveRoot)
                 ELSE IF allowAboveRoot
                   THEN normalizeString(rest, Append(stack, DotDot), allowAboveRoot)
                 ELSE normalizeString(rest, stack, allowAboveRoot)
          ELSE normalizeString(rest, Append(stack, c), allowAboveRoot)

\* process.cwd() of the server
Cwd == <<Sep, "a">>

\* path.resolve: right to left until an absolute segment, then normalised.
RECURSIVE ResolveFrom(_, _, _)
ResolveFrom(args, i, acc) ==
  IF i = 0 THEN Cwd \o <<Sep>> \o acc
  ELSE IF args[i] = <<>> THEN ResolveFrom(args, i - 1, acc)
  ELSE IF isAbsolute(args[i]) THEN args[i] \o <<Sep>> \o acc
  ELSE ResolveFrom(args, i - 1, args[i] \o <<Sep>> \o acc)

pathResolve(args) ==
  <<Sep>> \o JoinParts(normalizeString(Split(ResolveFrom(args, Len(args), <<>>)), <<>>, FALSE))

\* path.join: the non-empty segments joined by the separator, then
\* path.normalize (an absolute segment does not restart the path, a trailing
\* separator is kept).
RECURSIVE JoinArgs(_)
JoinArgs(args) ==
  IF args = <<>> THEN <<>>
  ELSE IF Head(args) = <<>> THEN JoinArgs(Tail(args))
  ELSE LET rest == JoinArgs(Tail(args))
       IN IF rest = <<>> THEN Head(args) ELSE Head(args) \o <<Sep>> \o rest

pathNormalize(p) ==
  IF p = <<>> THEN Dot
  ELSE LET abs == isAbsolute(p)
           trailing == p[Len(p)] = Sep
           n == JoinParts(normalizeString(Split(p), <<>>, ~abs))
       IN IF n = <<>>
            THEN IF abs THEN <<Sep>> ELSE IF trailing THEN <<".", Sep>> ELSE Dot
          ELSE (IF abs THEN <<Sep>> ELSE <<>>) \o n \o (IF trailing THEN <<Sep>> ELSE <<>>)

pathJoin(args) == pathNormalize(JoinArgs(args))

\* ------------------------------------------------------------- file system
\* The component list the operating system walks for an absolute path.
Components(p) == normalizeString(Split(p), <<>>, FALSE)

ToPath(comps) == <<Sep>> \o JoinParts(comps)

NameA == <<"a">>
NameAA == <<"a", "a">>
NameDotA == <<".", "a">>
NameValidations == <<"validations">>
NameLib == <<"lib">>
NameAJson == <<"a", ".json">>
NameDotJson == <<".", ".json">>

\* findContractDeploymentsRoot(): the trusted deployments root, /a
CONTRACT_DEPLOYMENTS_ROOT == <<Sep, "a">>

\* <root>/<network>/<upgradeId>/ holds the upgrade; /a/a/a has lib and a task
\* config, /a/a/aa has neither lib nor configs; /aa and /a.json lie outside.
Dirs ==
  { <<>>,
    <<NameA>>, <<NameA, NameA>>,
    <<NameA, NameA, NameA>>,
    <<NameA, NameA, NameA, NameValidations>>,
    <<NameA, NameA, NameA, NameLib>>,
    <<NameA, NameA, NameAA>>,
    <<NameAA>>, <<NameAA, NameValidations>> }

Files ==
  { <<NameA, NameA, NameA, NameValidations, NameAJson>>,
    <<NameAA, NameValidations, NameAJson>>,
    <<NameAJson>> }

\* A directory link inside the root that points outside it, and a file link
\* in a validations directory that points outside it.
Symlinks ==
  (<<NameA, NameA, NameDotA>> :> <<NameAA>>) @@
  (<<NameA, NameA, NameA, NameValidations, NameDotJson>> :> <<NameAJson>>)

\* fs.realpath: the canonical component list, or the errno of the failure.
RECURSIVE RealFrom(_, _)
RealFrom(cur, rest) ==
  IF rest = <<>> THEN [ok |-> TRUE, path |-> cur, code |-> "OK"]
  ELSE LET next == Append(cur, Head(rest))
       IN IF next \in DOMAIN Symlinks THEN RealFrom(Symlinks[next], Tail(rest))
          ELSE IF next \in Dirs THEN RealFrom(next, Tail(rest))
          ELSE IF next \in Files
            THEN IF Tail(rest) = <<>> THEN [ok |-> TRUE, path |-> next, code |-> "OK"]
                 ELSE [ok |-> FALSE, path |-> <<>>, code |-> "ENOTDIR"]
          ELSE [ok |-> FALSE, path |-> <<>>, code |-> "ENOENT"]

realpath(p) == RealFrom(<<>>, Components(p))

\* fs.readFile: the file the read lands on, or the errno.
readFile(p) ==
  LET r == realpath(p)
  IN IF ~r.ok THEN r
     ELSE IF r.path \in Files THEN r
     ELSE [ok |-> FALSE, path |-> <<>>, code |-> "EISDIR"]

\* fs.readdir: the entry names of the directory, or the errno.
readdir(p) ==
  LET r == realpath(p)
  IN IF ~r.ok THEN [ok |-> FALSE, path |-> <<>>, code |-> r.code, entries |-> {}]
     ELSE IF r.path \notin Dirs
       THEN [ok |-> FALSE, path |-> <<>>, code |-> "ENOTDIR", entries |-> {}]
     ELSE [ok |-> TRUE, path |-> r.path, code |-> "OK",
           entries |-> { q[Len(q)] : q \in { x \in Dirs \cup Files \cup DOMAIN Symlinks :
                                               Len(x) = Len(r.path) + 1
                                               /\ SubSeq(x, 1, Len(r.path)) = r.path } }]

pathExists(targetPath) == realpath(targetPath).ok

\* ---------------------------------------------------------- resolveSafePath
\* resolveSafePath with the separator left out of the prefix test.
resolveSafePathNoSep(root, segments) ==
  LET resolvedPath == pathResolve(<<root>> \o segments)
      normalizedRoot == pathResolve(<<root>>)
  IN IF resolvedPath # normalizedRoot /\ ~startsWith(resolvedPath, normalizedRoot)
       THEN [ok |-> FALSE, path |-> <<>>, message |-> "Invalid path segments"]
     ELSE [ok |-> TRUE, path |-> resolvedPath, message |-> ""]

resolveSafePath(root, segments) ==
  LET resolvedPath == pathResolve(<<root>> \o segments)
      normalizedRoot == pathResolve(<<root>>)
  IN IF resolvedPath # normalizedRoot
        /\ ~startsWith(resolvedPath, normalizedRoot \o <<Sep>>)
       THEN [ok |-> FALSE, path |-> <<>>, message |-> "Invalid path segments"]
     ELSE [ok |-> TRUE, path |-> resolvedPath, message |-> ""]

\* ------------------------------------------------------- external parser
\* parseFromString(content): success or failure plus diagnostics, and the
\* config payload when there is one. The optional fields of a TaskConfig are
\* sets: {} when the field is absent, {v} when it holds v.
Configs ==
  { [cmd |-> <<" ", "forge", " ", " ", "script", " ">>,
     rpcUrl |-> "rpc", ledgerId |-> 1,
     stateOverrides |-> <<"o1">>, stateChanges |-> <<"c1">>,
     balanceChanges |-> opt[1], expectedDomainAndMessageHashes |-> opt[2]] :
       opt \in { <<{}, {}>>, <<{}, {"hashesExpected"}>>, <<{<<"b1">>}, {"hashesExpected"}>> } }

ParseOutcomes ==
  { [success |-> s, config |-> c, summary |-> IF s THEN <<>> ELSE <<"diagnostics">>] :
       s \in BOOLEAN, c \in {{}} \cup {{x} : x \in Configs} }

getValidationSummary(parsed) == parsed.summary

orElse(opt, default) == IF opt = {} THEN default ELSE CHOOSE x \in opt : TRUE

\* --------------------------------------------------------------- messages
MsgInvalidName == "Invalid taskConfigFileName; path separators are not allowed"
MsgOutsideValidations == "Resolved config path is outside of the validations directory"
MsgEscapesRoot == "Invalid upgradeId, resolved path escapes deployments root"
MsgNotFound == "Config file not found"
MsgParseFailed == "Failed to parse config file"
MsgMissingConfig == "Parsed config missing config data"

Thrown(message, detail, fx) ==
  [ok |-> FALSE, error |-> [message |-> message, detail |-> detail], effects |-> fx]

FsEffect(op, p, r) == [op |-> op, path |-> p, target |-> r.path, code |-> r.code]

\* ---------------------------------------------------------- getConfigData
\* The tail both variants share: parse the content and hand out the config.
ParseStage(parsed, upgradePath, fx) ==
  LET fx1 == Append(fx, [op |-> "parse", outcome |-> parsed])
  IN IF ~parsed.success
       THEN Thrown(MsgParseFailed, <<>>,
                   Append(fx1, [op |-> "console.error", text |-> getValidationSummary(parsed)]))
     ELSE IF parsed.config = {}
       THEN Thrown(MsgMissingConfig, <<>>, fx1)
     ELSE [ok |-> TRUE, cfg |-> orElse(parsed.config, <<>>), scriptPath |-> upgradePath,
           effects |-> fx1]

ReadStage(parsed, upgradePath, configPath, fx) ==
  LET rd == readFile(configPath)
      fx1 == Append(fx, FsEffect("readFile", configPath, rd))
  IN IF ~rd.ok
       THEN IF rd.code = "ENOENT" THEN Thrown(MsgNotFound, configPath, fx1)
            ELSE Thrown(rd.code, <<>>, fx1)
     ELSE ParseStage(parsed, upgradePath, fx1)

\* src/lib/validation-service.ts: separator test on the file name, realpath
\* containment in the validations directory.
getConfigData(opts, parsed) ==
  LET upgradePath == pathJoin(<<CONTRACT_DEPLOYMENTS_ROOT, opts.network, opts.upgradeId>>)
  IN IF includes(opts.taskConfigFileName, "/") \/ includes(opts.taskConfigFileName, "\\")
       THEN Thrown(MsgInvalidName, <<>>, <<>>)
     ELSE
       LET configFileName == opts.taskConfigFileName \o <<".json">>
           validationsRoot == pathJoin(<<upgradePath, NameValidations>>)
           configPath == pathResolve(<<validationsRoot, configFileName>>)
           realRoot == realpath(validationsRoot)
           fx1 == <<FsEffect("realpath", validationsRoot, realRoot)>>
           realConfig == realpath(configPath)
           fx2 == Append(fx1, FsEffect("realpath", configPath, realConfig))
       IN IF ~realRoot.ok
            THEN IF realRoot.code = "ENOENT" THEN Thrown(MsgNotFound, configPath, fx1)
                 ELSE Thrown(realRoot.code, <<>>, fx1)
          ELSE IF ~realConfig.ok
            THEN IF realConfig.code = "ENOENT" THEN Thrown(MsgNotFound, configPath, fx2)
                 ELSE Thrown(realConfig.code, <<>>, fx2)
          ELSE IF ~startsWith(ToPath(realConfig.path), ToPath(realRoot.path) \o <<Sep>>)
            THEN Thrown(MsgOutsideValidations, <<>>, fx2)
          ELSE ReadStage(parsed, upgradePath, ToPath(realConfig.path), fx2)

\* The other validation-service source: lexical containment of the upgrade
\* directory in the deployments root, no test on the file name.
getConfigDataLexical(opts, parsed) ==
  LET upgradePath == pathResolve(<<CONTRACT_DEPLOYMENTS_ROOT, opts.network, opts.upgradeId>>)
      normalizedRoot == pathResolve(<<CONTRACT_DEPLOYMENTS_ROOT>>) \o <<Sep>>
  IN IF ~startsWith(upgradePath, normalizedRoot)
       THEN Thrown(MsgEscapesRoot, <<>>, <<>>)
     ELSE
       LET configFileName == opts.taskConfigFileName \o <<".json">>
           configPath == pathJoin(<<upgradePath, NameValidations, configFileName>>)
       IN ReadStage(parsed, upgradePath, configPath, <<>>)

\* -------------------------------------------------------- getExpectedData
\* getExpectedData with the overrides handed out as the expected state changes.
getExpectedDataSwapped(parsedConfig) ==
  [stateOverrides |-> parsedConfig.stateOverrides,
   stateChanges |-> parsedConfig.stateOverrides,
   balanceChanges |-> orElse(parsedConfig.balanceChanges, <<>>),
   domainAndMessageHashes |-> parsedConfig.expectedDomainAndMessageHashes]

getExpectedData(parsedConfig) ==
  [stateOverrides |-> parsedConfig.stateOverrides,
   stateChanges |-> parsedConfig.stateChanges,
   balanceChanges |-> orElse(parsedConfig.balanceChanges, <<>>),
   domainAndMessageHashes |-> parsedConfig.expectedDomainAndMessageHashes]

\* ------------------------------------------------- StateDiffClient.simulate
\* One run of the external simulator: how the process ended and, when it
\* exited with 0, the report it wrote.
Reports ==
  [stateOverrides : {<<"o1">>}, stateChanges : {<<"c1">>, <<"c2">>},
   balanceChanges : {{}, {<<"b2">>}},
   expectedDomainAndMessageHashes : {{}, {"hashesActual"}}]

SimRuns ==
  { [exit |-> e, report |-> r] : e \in {"zero", "nonzero", "timeout"}, r \in Reports }

MsgSimulationFailed == "SimulationFailed"
MsgSimulationTimeout == "SimulationTimeout"

simulate(rpcUrl, command, workingDirectory, run) ==
  IF run.exit = "timeout"
    THEN [ok |-> FALSE, error |-> [message |-> MsgSimulationTimeout, detail |-> <<"300s">>]]
  ELSE IF run.exit = "nonzero"
    THEN [ok |-> FALSE, error |-> [message |-> MsgSimulationFailed, detail |-> <<"stdout", "stderr">>]]
  ELSE IF run.report.expectedDomainAndMessageHashes = {}
    THEN [ok |-> FALSE, error |-> [message |-> MsgSimulationFailed, detail |-> <<"no hash section">>]]
  ELSE [ok |-> TRUE, result |-> run.report]

\* cfg.cmd.trim().split(/\s+/)
RECURSIVE trimStart(_)
trimStart(s) == IF s # <<>> /\ Head(s) = " " THEN trimStart(Tail(s)) ELSE s

RECURSIVE trimEnd(_)
trimEnd(s) ==
  IF s # <<>> /\ s[Len(s)] = " " THEN trimEnd(SubSeq(s, 1, Len(s) - 1)) ELSE s

trim(s) == trimEnd(trimStart(s))

RECURSIVE splitWhitespaceFrom(_, _)
splitWhitespaceFrom(s, cur) ==
  IF s = <<>> THEN <<cur>>
  ELSE IF Head(s) = " " THEN <<cur>> \o splitWhitespaceFrom(trimStart(s), <<>>)
  ELSE splitWhitespaceFrom(Tail(s), Append(cur, Head(s)))

splitWhitespace(s) == splitWhitespaceFrom(s, <<>>)

\* ------------------------------------------------ runStateDiffSimulation
\* runStateDiffSimulation with the catch block returning instead of rethrowing.
runStateDiffSimulationSwallow(scriptPath, cfg, run) ==
  LET forgeCmd == splitWhitespace(trim(cfg.cmd))
      stateDiffResult == simulate(cfg.rpcUrl, forgeCmd, scriptPath, run)
      fx == <<[op |-> "simulate", rpcUrl |-> cfg.rpcUrl, command |-> forgeCmd,
               cwd |-> scriptPath, outcome |-> run]>>
  IN [ok |-> TRUE,
      value |-> [stateOverrides |-> run.report.stateOverrides,
                 stateChanges |-> run.report.stateChanges,
                 balanceChanges |-> orElse(run.report.balanceChanges, <<>>),
                 domainAndMessageHashes |-> {}],
      effects |-> fx]

runStateDiffSimulation(scriptPath, cfg, run) ==
  LET forgeCmd == splitWhitespace(trim(cfg.cmd))
      stateDiffResult == simulate(cfg.rpcUrl, forgeCmd, scriptPath, run)
      fx == <<[op |-> "simulate", rpcUrl |-> cfg.rpcUrl, command |-> forgeCmd,
               cwd |-> scriptPath, outcome |-> run]>>
  IN IF stateDiffResult.ok
       THEN [ok |-> TRUE,
             value |-> [stateOverrides |-> stateDiffResult.result.stateOverrides,
                        stateChanges |-> stateDiffResult.result.stateChanges,
                        balanceChanges |-> orElse(stateDiffResult.result.balanceChanges, <<>>),
                        domainAndMessageHashes |->
                          stateDiffResult.result.expectedDomainAndMessageHashes],
             effects |-> fx]
     ELSE [ok |-> FALSE, error |-> stateDiffResult.error,
           effects |-> Append(fx, [op |-> "console.error", text |-> stateDiffResult.error.message])]

\* -------------------------------------------------- GET /api/upgrade-config
toUpperCase(ch) == IF ch = "a" THEN "A" ELSE ch

\* No name of the model holds a '-', so a name is one word.
toDisplayName(name) ==
  IF name = <<>> THEN <<>> ELSE <<toUpperCase(Head(name))>> \o Tail(name)

RECURSIVE SetToSeq(_)
SetToSeq(S) ==
  IF S = {} THEN <<>>
  ELSE LET x == CHOOSE y \in S : TRUE IN <<x>> \o SetToSeq(S \ {x})

JsonNames == { q[Len(q)] : q \in { x \in Files \cup DOMAIN Symlinks : endsWith(x[Len(x)], <<".json">>) } }

Http(status, body, fx) == [status |-> status, body |-> body, effects |-> fx]

MsgMissingParams == "Missing required parameters: network and upgradeId are required"

ConfigOption(validationsPath, configFile, parsedOf) ==
  LET baseName == SubSeq(configFile, 1, Len(configFile) - 1)
      rd == readFile(pathJoin(<<validationsPath, configFile>>))
      parsedConfig == parsedOf[configFile]
  IN [fileName |-> baseName, displayName |-> toDisplayName(baseName),
      configFile |-> configFile,
      ledgerId |-> IF rd.ok /\ parsedConfig.success /\ parsedConfig.config # {}
                     THEN orElse(parsedConfig.config, <<>>).ledgerId ELSE 0]

GET(network, upgradeId, parsedOf) ==
  IF network = <<>> \/ upgradeId = <<>>
    THEN Http(400, [error |-> MsgMissingParams], <<>>)
  ELSE
    LET validationsPath ==
          pathResolve(<<CONTRACT_DEPLOYMENTS_ROOT, network, upgradeId, NameValidations>>)
        ls == readdir(validationsPath)
        fx1 == <<FsEffect("readdir", validationsPath, ls)>>
        jsonFiles == SetToSeq({ f \in ls.entries : endsWith(f, <<".json">>) })
        reads == [i \in DOMAIN jsonFiles |->
                    LET filePath == pathJoin(<<validationsPath, jsonFiles[i]>>)
                    IN FsEffect("readFile", filePath, readFile(filePath))]
    IN IF ~ls.ok
         THEN IF ls.code = "ENOENT" THEN Http(200, [configOptions |-> {}], fx1)
              ELSE Http(500, [error |-> "Failed to fetch upgrade configuration"], fx1)
       ELSE Http(200,
                 [configOptions |->
                    { ConfigOption(validationsPath, jsonFiles[i], parsedOf) : i \in DOMAIN jsonFiles }],
                 fx1 \o reads)

\* -------------------------------------------------- POST /api/install-deps
\* Boolean(forceInstall) over the JSON values a body can carry.
JsonValues == {"undefined", "false", "true", "0", "'false'"}

\* Boolean(forceInstall) replaced by a test that the body defines forceInstall.
BooleanDefined(v) == v # "undefined"

Boolean(v) == v \in {"true", "'false'"}

\* How `make deps` ends: the phrases the thrown error's message holds, or a
\* clean exit that did or did not leave a lib folder behind.
ExecOutcomes ==
  { [ok |-> TRUE, lib |-> l, phrases |-> {}] : l \in BOOLEAN } \cup
  { [ok |-> FALSE, lib |-> FALSE, phrases |-> ph] :
      ph \in {{"Command failed"}, {"timeout"}, {"ENOENT"}, {"EACCES"}} }

errorMessage(phrases) ==
  IF "Command failed" \in phrases THEN "make deps command failed"
  ELSE IF "timeout" \in phrases THEN "Dependency installation timed out (5 minutes)"
  ELSE IF "ENOENT" \in phrases THEN "make command not found"
  ELSE CHOOSE m \in phrases : TRUE

POST(json, exec) ==
  IF ~json.valid THEN Http(500, [error |-> "Unexpected token"], <<>>)
  ELSE IF json.network = <<>> \/ json.upgradeId = <<>>
    THEN Http(400, [error |-> MsgMissingParams], <<>>)
  ELSE
    LET actualNetwork == toLowerCase(json.network)
        shouldForceInstall == Boolean(json.forceInstall)
        upgrade == resolveSafePath(CONTRACT_DEPLOYMENTS_ROOT, <<actualNetwork, json.upgradeId>>)
        lib == resolveSafePath(upgrade.path, <<NameLib>>)
        upgradePathExists == pathExists(upgrade.path)
        fx1 == <<FsEffect("access", upgrade.path, realpath(upgrade.path))>>
        libExistsBeforeInstall == pathExists(lib.path)
        fx2 == Append(fx1, FsEffect("access", lib.path, realpath(lib.path)))
        fx3 == Append(fx2, [op |-> "exec", command |-> "make deps", cwd |-> upgrade.path,
                            target |-> realpath(upgrade.path).path, outcome |-> exec])
    IN IF ~upgrade.ok THEN Http(500, [error |-> upgrade.message], <<>>)
       ELSE IF ~lib.ok THEN Http(500, [error |-> lib.message], <<>>)
       ELSE IF ~upgradePathExists
         THEN Http(404, [error |-> "Upgrade folder not found"], fx1)
       ELSE IF ~shouldForceInstall /\ libExistsBeforeInstall
         THEN Http(200, [success |-> TRUE, libExists |-> TRUE, installed |-> FALSE,
                         depsInstalled |-> FALSE], fx2)
       ELSE IF ~exec.ok
         THEN Http(500, [error |-> errorMessage(exec.phrases)], fx3)
       ELSE Http(200, [success |-> TRUE, libExists |-> (libExistsBeforeInstall \/ exec.lib),
                       installed |-> TRUE, depsInstalled |-> TRUE],
                 Append(fx3, [op |-> "access", path |-> lib.path, target |-> <<>>,
                              code |-> IF libExistsBeforeInstall \/ exec.lib
                                         THEN "OK" ELSE "ENOENT"]))

\* ----------------------------------------------------------------- inputs
Idents == Strs({"/", ".", "a"}, MaxLen)

PostIdents == Strs({"/", ".", "a", "A"}, MaxLen)

RECURSIVE Ups(_)
Ups(k) == IF k = 0 THEN <<>> ELSE <<".", ".", "/">> \o Ups(k - 1)

\* Up to MaxUps "../" prefixes, then nothing or one character.
FileNames ==
  { Ups(k) \o s : k \in 0..MaxUps, s \in {<<>>} \cup { <<c>> : c \in {"/", "\\", ".", "a"} } }

Roots == { <<Sep, "a">>, <<Sep>>, <<"a", Sep>> }

SegmentLists == UNION {[1..k -> Idents] : k \in 0..MaxSegs}

NoResp == [none |-> TRUE]

\* ------------------------------------------------------------------ state
Init ==
  /\ pc = "idle"
  /\ req = [entry |-> "none"]
  /\ effects = <<>>
  /\ resp = NoResp
  /\ loaded = [none |-> TRUE]

\* A direct call of resolveSafePath.
CallResolveSafePath ==
  /\ pc = "idle"
  /\ \E root \in Roots, segments \in SegmentLists :
       /\ req' = [entry |-> "resolveSafePath", root |-> root, segments |-> segments]
       /\ resp' = resolveSafePath(root, segments)
  /\ pc' = "done"
  /\ UNCHANGED <<effects, loaded>>

HandleGET ==
  /\ pc = "idle"
  /\ \E network \in Idents, upgradeId \in Idents, parsedOf \in [JsonNames -> ParseOutcomes] :
       LET r == GET(network, upgradeId, parsedOf)
       IN /\ req' = [entry |-> "GET", network |-> network, upgradeId |-> upgradeId]
          /\ resp' = [status |-> r.status, body |-> r.body]
          /\ effects' = r.effects
  /\ pc' = "done"
  /\ UNCHANGED loaded

HandlePOST ==
  /\ pc = "idle"
  /\ \E valid \in BOOLEAN, network \in PostIdents, upgradeId \in Idents,
        forceInstall \in JsonValues, exec \in ExecOutcomes :
       LET json == [valid |-> valid, network |-> network, upgradeId |-> upgradeId,
                    forceInstall |-> forceInstall]
           r == POST(json, exec)
       IN /\ req' = [entry |-> "POST"] @@ json
          /\ resp' = [status |-> r.status, body |-> r.body]
          /\ effects' = r.effects
  /\ pc' = "done"
  /\ UNCHANGED loaded

\* validateUpgrade up to its second await: getConfigData and getExpectedData.
LoadStep(entry, r, opts) ==
  /\ req' = [entry |-> entry] @@ opts
  /\ effects' = r.effects
  /\ IF r.ok
       THEN /\ pc' = "configLoaded"
            /\ loaded' = [cfg |-> r.cfg, scriptPath |-> r.scriptPath,
                          expected |-> getExpectedData(r.cfg)]
            /\ resp' = NoResp
       ELSE /\ pc' = "done"
            /\ loaded' = loaded
            /\ resp' = [ok |-> FALSE, error |-> r.error]

validateUpgradeLoad ==
  /\ pc = "idle"
  /\ \E network \in Idents, upgradeId \in Idents, name \in FileNames, parsed \in ParseOutcomes :
       LET opts == [network |-> network, upgradeId |-> upgradeId, taskConfigFileName |-> name]
       IN LoadStep("validateUpgrade", getConfigData(opts, parsed), opts)

validateUpgradeLexicalLoad ==
  /\ pc = "idle"
  /\ \E network \in Idents, upgradeId \in Idents, name \in FileNames, parsed \in ParseOutcomes :
       LET opts == [network |-> network, upgradeId |-> upgradeId, taskConfigFileName |-> name]
       IN LoadStep("validateUpgradeLexical", getConfigDataLexical(opts, parsed), opts)

\* validateUpgrade handing out the expected side alone when the simulation fails.
validateUpgradeSimulatePartial ==
  /\ pc = "configLoaded"
  /\ \E run \in SimRuns :
       LET r == runStateDiffSimulation(loaded.scriptPath, loaded.cfg, run)
       IN /\ effects' = effects \o r.effects
          /\ resp' = IF r.ok
                       THEN [ok |-> TRUE,
                             value |-> [expected |-> loaded.expected, actual |-> r.value]]
                     ELSE [ok |-> TRUE, value |-> [expected |-> loaded.expected]]
  /\ pc' = "done"
  /\ UNCHANGED <<req, loaded>>

\* validateUpgrade from the simulation to its return.
validateUpgradeSimulate ==
  /\ pc = "configLoaded"
  /\ \E run \in SimRuns :
       LET r == runStateDiffSimulation(loaded.scriptPath, loaded.cfg, run)
       IN /\ effects' = effects \o r.effects
          /\ resp' = IF r.ok
                       THEN [ok |-> TRUE,
                             value |-> [expected |-> loaded.expected, actual |-> r.value]]
                     ELSE [ok |-> FALSE, error |-> r.error]
  /\ pc' = "done"
  /\ UNCHANGED <<req, loaded>>

Next ==
  \/ CallResolveSafePath
  \/ HandleGET
  \/ HandlePOST
  \/ validateUpgradeLoad
  \/ validateUpgradeLexicalLoad
  \/ validateUpgradeSimulate

Spec == Init /\ [][Next]_vars

\* ------------------------------------------------------------ properties
RootComps == Components(CONTRACT_DEPLOYMENTS_ROOT)

\* comps names base or something below it, component by component.
Within(comps, base) == Len(base) <= Len(comps) /\ SubSeq(comps, 1, Len(base)) = base

IsValidate == req.entry \in {"validateUpgrade", "validateUpgradeLexical"}

HasSeparator(s) == includes(s, "/") \/ includes(s, "\\")

Did(op) == \E i \in DOMAIN effects : effects[i].op = op

FsOps == {"realpath", "readFile", "readdir", "access"}

\* C1: whatever root and segments resolveSafePath is given, a path it returns
\* is the normalised root or lies below it component by component; segments
\* that lead outside the root, a sibling whose name extends the root's name
\* included, make it throw.
C1_ResolveSafePathContained ==
  (req.entry = "resolveSafePath" /\ resp.ok)
    => Within(Components(resp.path), Components(pathResolve(<<req.root>>)))

C1_Witness ==
  /\ req.entry = "resolveSafePath"
  /\ req.root = CONTRACT_DEPLOYMENTS_ROOT
  /\ req.segments = <<DotDot, NameA>>
  /\ resp.ok
  /\ resp.path = CONTRACT_DEPLOYMENTS_ROOT

\* C2: the config file getConfigData reads lies inside the deployments root.
C2_ConfigReadInsideRoot ==
  IsValidate =>
    \A i \in DOMAIN effects :
      (effects[i].op = "readFile" /\ effects[i].code = "OK")
        => Within(effects[i].target, RootComps)

\* C3: a taskConfigFileName that holds '/' or '\' makes getConfigData fail
\* with the invalid-name error before it touches the file system, and the
\* simulator is not invoked. (A call whose network and upgradeId were
\* themselves refused as escaping the root is let through here, so that the
\* order of the two refusals is not what decides the formula.)
C3_SeparatorInFileNameRejected ==
  (IsValidate /\ HasSeparator(req.taskConfigFileName))
    => /\ pc = "done"
       /\ ~resp.ok
       /\ resp.error.message \in {MsgInvalidName, MsgEscapesRoot}
       /\ effects = <<>>

\* C4: at every entry point a network or upgradeId that holds a path
\* separator is rejected before any path is built from it: the request fails
\* and nothing is read, listed or started.
C4_SeparatorInIdentifierRejected ==
  (req.entry \in {"GET", "POST", "validateUpgrade", "validateUpgradeLexical"}
     /\ (HasSeparator(req.network) \/ HasSeparator(req.upgradeId)))
    => /\ pc = "done"
       /\ effects = <<>>
       /\ IF IsValidate THEN ~resp.ok ELSE resp.status >= 400

SimulateEffects == { i \in DOMAIN effects : effects[i].op = "simulate" }

ParseEffects == { i \in DOMAIN effects : effects[i].op = "parse" }

ConfigErrorMessages ==
  {MsgInvalidName, MsgOutsideValidations, MsgEscapesRoot, MsgNotFound, MsgParseFailed,
   MsgMissingConfig, "ENOTDIR", "EISDIR"}

\* C5: in validateUpgrade the simulator is invoked only after a parse that
\* succeeded with a config payload; a run whose config stage failed never
\* invokes it and ends with that stage's error; a run whose simulation failed
\* ends with exactly the error the simulation client raised; a result is
\* handed out only when the simulation succeeded, and it holds both sides.
C5_StagesInOrder ==
  IsValidate =>
    /\ \A i \in SimulateEffects :
         \E j \in ParseEffects :
           j < i /\ effects[j].outcome.success /\ effects[j].outcome.config # {}
    /\ (pc = "done" /\ ~resp.ok) =>
         /\ DOMAIN resp = {"ok", "error"}
         /\ IF SimulateEffects = {}
              THEN resp.error.message \in ConfigErrorMessages
            ELSE \A i \in SimulateEffects :
                   /\ effects[i].outcome.exit # "zero"
                        \/ effects[i].outcome.report.expectedDomainAndMessageHashes = {}
                   /\ resp.error =
                        simulate(effects[i].rpcUrl, effects[i].command, effects[i].cwd,
                                 effects[i].outcome).error
    /\ (pc = "done" /\ resp.ok) =>
         /\ {"expected", "actual"} \subseteq DOMAIN resp.value
         /\ \E i \in SimulateEffects : effects[i].outcome.exit = "zero"

C5_Witness ==
  /\ IsValidate
  /\ pc = "done"
  /\ ~resp.ok
  /\ \E i \in SimulateEffects : effects[i].outcome.exit = "nonzero"

C7_ParseErrorCarriesSummary ==
  IsValidate =>
    \A j \in ParseEffects :
      (~effects[j].outcome.success \/ effects[j].outcome.config = {})
        => /\ pc = "done"
           /\ ~resp.ok
           /\ resp.error.message \in {MsgParseFailed, MsgMissingConfig}
           /\ resp.error.detail = getValidationSummary(effects[j].outcome)
           /\ SimulateEffects = {}

C9_OneContainmentDiscipline ==
  /\ \A i \in DOMAIN effects :
       /\ effects[i].op \in FsOps => Within(Components(effects[i].path), RootComps)
       /\ effects[i].op \in {"exec", "simulate"}
            => Within(Components(effects[i].cwd), RootComps)
  /\ pc = "configLoaded" => Within(Components(loaded.scriptPath), RootComps)

PostUpgradePath ==
  pathResolve(<<CONTRACT_DEPLOYMENTS_ROOT, toLowerCase(req.network), req.upgradeId>>)

PostParamsPresent == req.valid /\ req.network # <<>> /\ req.upgradeId # <<>>

PostInside == Within(Components(PostUpgradePath), RootComps)

PostLibExists == realpath(PostUpgradePath \o <<Sep>> \o NameLib).ok

PostForce == req.forceInstall \in {"true", "'false'"}

\* C10: POST install-deps starts `make deps` only for a request that names
\* network and upgradeId, whose upgrade folder resolves inside the root and
\* exists, and whose lib folder is missing or whose forceInstall is truthy;
\* missing parameters give 400, a missing upgrade folder 404, and a lib
\* folder that exists without forceInstall 200 with installed = FALSE and
\* libExists = TRUE, each without a subprocess.
C10_MakeDepsOnlyWhenNeeded ==
  req.entry = "POST" =>
    /\ Did("exec") =>
         /\ PostParamsPresent
         /\ PostInside
         /\ realpath(PostUpgradePath).ok
         /\ ~PostLibExists \/ PostForce
    /\ (req.valid /\ ~PostParamsPresent) => (resp.status = 400 /\ ~Did("exec"))
    /\ (PostParamsPresent /\ PostInside /\ ~realpath(PostUpgradePath).ok)
         => (resp.status = 404 /\ ~Did("exec"))
    /\ (PostParamsPresent /\ PostInside /\ realpath(PostUpgradePath).ok
          /\ PostLibExists /\ ~PostForce)
         => /\ resp.status = 200
            /\ resp.body.installed = FALSE
            /\ resp.body.libExists = TRUE
            /\ ~Did("exec")

C10_Witness ==
  /\ req.entry = "POST"
  /\ Did("exec")
  /\ PostLibExists
  /\ PostForce
  /\ resp.status = 200

====
